---- MODULE Spec2Model ----
(***************************************************************************)
(* Adaptive GMAT quiz (app.py): the difficulty ladder, the scoring, the    *)
(* question parser with its fallback, and the session state machine that   *)
(* the script's evaluation cycles drive through st.session_state.          *)
(*                                                                         *)
(* Text is a sequence of tokens.  A token is one character, except that    *)
(* the two marker words "Question:" and "Correct Answer:" and the prompt   *)
(* of the fallback question are kept as units: no other token shares a     *)
(* character sequence with them, so prefix tests, replacement and          *)
(* trimming on token sequences agree with the same operations on the       *)
(* characters.                                                             *)
(***************************************************************************)
EXTENDS Integers, Sequences, FiniteSets, Bags, TLC

VARIABLES
    session_state,  \* st.session_state: a mapping from the keys present to their values
    question,       \* parse_response: local `question`
    options,        \* parse_response: local `options`
    correct,        \* parse_response: local `correct`
    scanned,        \* parse_response: the lines the loop has consumed so far (a bag)
    returned,       \* parse_response: the set holding the returned Question, {} before the return
    prompted        \* generate_question: the difficulty the question in flight was asked
                    \* of the model with, as a set; {} when no question is in flight

vars == <<session_state, question, options, correct, scanned, returned, prompted>>

----------------------------------------------------------------------------
(* Global settings *)

TOTAL_QUESTIONS == 10

difficulty_levels == <<"easy", "medium", "hard">>

\* variant: a hard question is worth 4 points
scoring_hard_four == [easy |-> 1, medium |-> 2, hard |-> 4]

scoring == [easy |-> 1, medium |-> 2, hard |-> 3]

----------------------------------------------------------------------------
(* Strings as token sequences *)

NL == "\n"

Whitespace == {" "}

\* str.split("\n"): the pieces between newline tokens, at least one piece
RECURSIVE split(_)
split(text) ==
    IF \A i \in 1..Len(text) : text[i] # NL
    THEN <<text>>
    ELSE LET i == CHOOSE j \in 1..Len(text) :
                      text[j] = NL /\ \A k \in 1..(j - 1) : text[k] # NL
         IN <<SubSeq(text, 1, i - 1)>> \o split(SubSeq(text, i + 1, Len(text)))

\* str.startswith(prefix)
startswith(line, prefix) ==
    /\ Len(line) >= Len(prefix)
    /\ SubSeq(line, 1, Len(prefix)) = prefix

\* str.replace(marker, ""): every occurrence of the one-token marker is removed
replace(line, marker) == SelectSeq(line, LAMBDA t : t # marker)

\* str.strip(): whitespace removed at both ends
RECURSIVE strip(_)
strip(s) ==
    IF s = <<>> THEN s
    ELSE IF Head(s) \in Whitespace THEN strip(Tail(s))
    ELSE IF s[Len(s)] \in Whitespace THEN strip(SubSeq(s, 1, Len(s) - 1))
    ELSE s

----------------------------------------------------------------------------
(* Helper functions *)

Min(a, b) == IF a < b THEN a ELSE b

Max(a, b) == IF a > b THEN a ELSE b

\* list.index(x), 0-based
index_of(seq, x) == (CHOOSE i \in 1..Len(seq) : seq[i] = x) - 1

\* variant: the lower clamp is one step too high
adjust_difficulty_high_floor(current_difficulty, is_correct) ==
    LET index == index_of(difficulty_levels, current_difficulty)
    IN IF is_correct
       THEN difficulty_levels[Min(index + 1, Len(difficulty_levels) - 1) + 1]
       ELSE difficulty_levels[Max(index - 1, 1) + 1]

\* variant: the upper clamp is one step too low
adjust_difficulty_low_ceiling(current_difficulty, is_correct) ==
    LET index == index_of(difficulty_levels, current_difficulty)
    IN IF is_correct
       THEN difficulty_levels[Min(index + 1, Len(difficulty_levels) - 2) + 1]
       ELSE difficulty_levels[Max(index - 1, 0) + 1]

adjust_difficulty(current_difficulty, is_correct) ==
    LET index == index_of(difficulty_levels, current_difficulty)
    IN IF is_correct
       THEN difficulty_levels[Min(index + 1, Len(difficulty_levels) - 1) + 1]
       ELSE difficulty_levels[Max(index - 1, 0) + 1]

OptionLetters == <<"A", "B", "C", "D", "E">>

QuestionMarker == "Question:"

CorrectMarker == "Correct Answer:"

is_option_line(line) ==
    \E i \in 1..Len(OptionLetters) : startswith(line, <<OptionLetters[i], ")">>)

\* dict item assignment d[k] = v
dict_set(d, k, v) == (k :> v) @@ d

\* del d[k]
dict_del(d, k) == [x \in (DOMAIN d) \ {k} |-> d[x]]

\* the state of the scan before the first line
scan_start == [question |-> <<>>, options |-> <<>>, correct |-> <<>>]

\* variant: the first line for a letter is kept
scan_line_first_wins(st, line) ==
    IF startswith(line, <<QuestionMarker>>)
    THEN [st EXCEPT !.question = strip(replace(line, QuestionMarker))]
    ELSE IF is_option_line(line)
    THEN LET letter == line[1]
             option_text == strip(SubSeq(line, 3, Len(line)))
         IN [st EXCEPT !.options = st.options @@ (letter :> option_text)]
    ELSE IF startswith(line, <<CorrectMarker>>)
    THEN [st EXCEPT !.correct = strip(replace(line, CorrectMarker))]
    ELSE st

\* the body of the loop over the lines
scan_line(st, line) ==
    IF startswith(line, <<QuestionMarker>>)
    THEN [st EXCEPT !.question = strip(replace(line, QuestionMarker))]
    ELSE IF is_option_line(line)
    THEN LET letter == line[1]
             option_text == strip(SubSeq(line, 3, Len(line)))
         IN [st EXCEPT !.options = dict_set(st.options, letter, option_text)]
    ELSE IF startswith(line, <<CorrectMarker>>)
    THEN [st EXCEPT !.correct = strip(replace(line, CorrectMarker))]
    ELSE st

RECURSIVE scan(_, _)
scan(st, lines) ==
    IF lines = <<>> THEN st ELSE scan(scan_line(st, Head(lines)), Tail(lines))

fallback_question ==
    [question |-> <<"What is 2 + 2?">>,
     options |-> [A |-> <<"3">>, B |-> <<"4">>, C |-> <<"5">>, D |-> <<"6">>, E |-> <<"7">>],
     correct_answer |-> <<"B">>]

\* variant: a missing correct letter is accepted
lacks_fields_but_correct(st) ==
    \/ st.question = <<>>
    \/ Cardinality(DOMAIN st.options) < 5

\* the validation after the loop, and the returned Question
lacks_fields(st) ==
    \/ st.question = <<>>
    \/ Cardinality(DOMAIN st.options) < 5
    \/ st.correct = <<>>

finish(st) ==
    IF lacks_fields(st)
    THEN fallback_question
    ELSE [question |-> st.question, options |-> st.options, correct_answer |-> st.correct]

parse_response(text) == finish(scan(scan_start, split(text)))

----------------------------------------------------------------------------
(* Inputs: what the text-generation pipeline may return *)

\* completions of the model: one in the expected format, one without any marker
WellFormedText ==
    <<"Question:", " ", "x", "?", NL,
      "A", ")", " ", "1", NL,
      "B", ")", " ", "2", NL,
      "C", ")", " ", "3", NL,
      "D", ")", " ", "4", NL,
      "E", ")", " ", "5", NL,
      "Correct Answer:", " ", "A">>

MalformedText == <<"x", "?", NL, "A", ")", " ", "1">>

NoText == <<>>

GenTexts == {WellFormedText, MalformedText}

\* parse_response on each completion, computed once
Parsed == [text \in GenTexts \cup {NoText} |-> parse_response(text)]

\* model(prompt, max_length=200) is an input: the completion `text`
generate_question(difficulty, text) == Parsed[text]

----------------------------------------------------------------------------
(* One evaluation cycle of the script over st.session_state *)

\* the value each key gets when it is absent
Defaults ==
    [started |-> FALSE,
     current_question |-> 0,
     score |-> 0,
     current_difficulty |-> "medium",
     questions |-> <<>>]

\* variant: current_difficulty gets no default
init_keys_no_difficulty(ss) ==
    [k \in DOMAIN ss \cup (DOMAIN Defaults \ {"current_difficulty"}) |->
        IF k \in DOMAIN ss THEN ss[k] ELSE Defaults[k]]

\* session state initialization: each key is set only when absent
init_keys(ss) ==
    [k \in DOMAIN ss \cup DOMAIN Defaults |->
        IF k \in DOMAIN ss THEN ss[k] ELSE Defaults[k]]

\* sorted(qdata["options"].keys())
sorted_keys(d) == SelectSeq(OptionLetters, LAMBDA l : l \in DOMAIN d)

\* st.radio(..., option_keys, key="user_answer_radio"): the stored selection,
\* the first option when nothing is stored yet
radio(ss, option_keys) ==
    IF "user_answer_radio" \in DOMAIN ss THEN ss["user_answer_radio"] ELSE option_keys[1]

\* variants of the Submit Answer handler, one slip each
submit_variant(ss, qdata, user_answer, slip) ==
    LET correct_answer == qdata.correct_answer
        is_correct == (<<user_answer>> = correct_answer)
        adjusted == adjust_difficulty(ss["current_difficulty"], is_correct)
        level == IF slip = "adjust first" THEN adjusted ELSE ss["current_difficulty"]
        points == IF is_correct THEN scoring[level]
                  ELSE IF slip = "penalty" THEN 0 - 1 ELSE 0
        key == IF slip = "key" THEN ss["current_question"] ELSE ss["current_question"] + 1
        step == IF slip = "stay" /\ ~is_correct THEN 0 ELSE 1
        entry == [Question |-> qdata.question,
                  Your_Answer |-> user_answer,
                  Correct_Answer |-> correct_answer,
                  Difficulty |-> level,
                  Points_Awarded |-> IF slip = "record level" THEN scoring[level] ELSE points,
                  Result |-> IF is_correct THEN "Correct" ELSE "Incorrect"]
        s1 == [ss EXCEPT !["score"] = @ + points,
                         !["questions"] = dict_set(@, key, entry),
                         !["current_difficulty"] = adjusted,
                         !["current_question"] = @ + step]
    IN IF slip = "keep" THEN s1 ELSE dict_del(s1, "current_question_data")

submit_answer_adjust_first(ss, qdata, user_answer) ==
    submit_variant(ss, qdata, user_answer, "adjust first")

submit_answer_penalty(ss, qdata, user_answer) ==
    submit_variant(ss, qdata, user_answer, "penalty")

submit_answer_key(ss, qdata, user_answer) ==
    submit_variant(ss, qdata, user_answer, "key")

submit_answer_stay(ss, qdata, user_answer) ==
    submit_variant(ss, qdata, user_answer, "stay")

submit_answer_keep(ss, qdata, user_answer) ==
    submit_variant(ss, qdata, user_answer, "keep")

submit_answer_record_level(ss, qdata, user_answer) ==
    submit_variant(ss, qdata, user_answer, "record level")

\* the body of `if st.button("Submit Answer")`
submit_answer(ss, qdata, user_answer) ==
    LET correct_answer == qdata.correct_answer
        is_correct == (<<user_answer>> = correct_answer)
        points == IF is_correct THEN scoring[ss["current_difficulty"]] ELSE 0
        s1 == [ss EXCEPT !["score"] = @ + points]
        entry == [Question |-> qdata.question,
                  Your_Answer |-> user_answer,
                  Correct_Answer |-> correct_answer,
                  Difficulty |-> s1["current_difficulty"],
                  Points_Awarded |-> points,
                  Result |-> IF is_correct THEN "Correct" ELSE "Incorrect"]
        s2 == [s1 EXCEPT !["questions"] = dict_set(@, s1["current_question"] + 1, entry)]
        s3 == [s2 EXCEPT !["current_difficulty"] = adjust_difficulty(@, is_correct)]
        s4 == [s3 EXCEPT !["current_question"] = @ + 1]
    IN dict_del(s4, "current_question_data")

\* variant: the score survives the reset
restart_test_keeps_score(ss) == [x \in {"score"} \cap DOMAIN ss |-> ss[x]]

\* `for key in list(st.session_state.keys()): del st.session_state[key]`
restart_test(ss) == [x \in {} |-> ss[x]]

\* variant: the question page is still shown at the last index
page_one_more(ss) ==
    IF ~ss["started"] THEN "start"
    ELSE IF ss["current_question"] <= TOTAL_QUESTIONS THEN "question"
    ELSE "summary"

\* which part of the page the script renders for a session state
page(ss) ==
    IF ~ss["started"] THEN "start"
    ELSE IF ss["current_question"] < TOTAL_QUESTIONS THEN "question"
    ELSE "summary"

\* variant: a question is generated on every run of the question page
script_regenerates(ss0, click, text) ==
    LET ss == init_keys(ss0)
    IN IF page(ss) = "start"
       THEN IF click = "Start Test"
            THEN [ss |-> [ss EXCEPT !["started"] = TRUE], rerun |-> TRUE, asked |-> {}]
            ELSE [ss |-> ss, rerun |-> FALSE, asked |-> {}]
       ELSE IF page(ss) = "question"
       THEN LET asked == {ss["current_difficulty"]}
                s1 == dict_set(ss, "current_question_data",
                               generate_question(ss["current_difficulty"], text))
                qdata == s1["current_question_data"]
                option_keys == sorted_keys(qdata.options)
                user_answer == radio(s1, option_keys)
                s2 == dict_set(s1, "user_answer_radio", user_answer)
            IN IF click = "Submit Answer"
               THEN [ss |-> submit_answer(s2, qdata, user_answer), rerun |-> TRUE,
                     asked |-> asked]
               ELSE [ss |-> s2, rerun |-> FALSE, asked |-> asked]
       ELSE IF click = "Restart Test"
            THEN [ss |-> restart_test(ss), rerun |-> TRUE, asked |-> {}]
            ELSE [ss |-> ss, rerun |-> FALSE, asked |-> {}]

\* One run of the script.  click is the button pressed in the page of the
\* previous run ("" for none), text what the model would generate if asked.
\* The result is the state the run leaves, whether it asked for a rerun, and
\* the difficulty it called generate_question with (a set, {} when it did not).
script(ss0, click, text) ==
    LET ss == init_keys(ss0)
    IN IF page(ss) = "start"
       THEN IF click = "Start Test"
            THEN [ss |-> [ss EXCEPT !["started"] = TRUE], rerun |-> TRUE, asked |-> {}]
            ELSE [ss |-> ss, rerun |-> FALSE, asked |-> {}]
       ELSE IF page(ss) = "question"
       THEN LET absent == "current_question_data" \notin DOMAIN ss
                asked == IF absent THEN {ss["current_difficulty"]} ELSE {}
                s1 == IF absent
                      THEN dict_set(ss, "current_question_data",
                                    generate_question(ss["current_difficulty"], text))
                      ELSE ss
                qdata == s1["current_question_data"]
                option_keys == sorted_keys(qdata.options)
                user_answer == radio(s1, option_keys)
                s2 == dict_set(s1, "user_answer_radio", user_answer)
            IN IF click = "Submit Answer"
               THEN [ss |-> submit_answer(s2, qdata, user_answer), rerun |-> TRUE,
                     asked |-> asked]
               ELSE [ss |-> s2, rerun |-> FALSE, asked |-> asked]
       ELSE IF click = "Restart Test"
            THEN [ss |-> restart_test(ss), rerun |-> TRUE, asked |-> {}]
            ELSE [ss |-> ss, rerun |-> FALSE, asked |-> {}]

\* A user action: the run it triggers and, when that run ends in
\* st.experimental_rerun(), the run that follows at once with no button pressed
\* (r is the outcome of the first run, q of the last).  The result is the state
\* left and the difficulties generate_question was called with on the way.
cycle_run(ss, click, text) ==
    CHOOSE c \in UNION {{[ss |-> q.ss, asked |-> r.asked \cup q.asked] :
                            q \in {IF r.rerun THEN script(r.ss, "", text) ELSE r}} :
                         r \in {script(ss, click, text)}} : TRUE

cycle(ss, click, text) == cycle_run(ss, click, text).ss

\* the difficulty on record for the question in flight after a cycle
next_prompted(before, c) ==
    IF "current_question_data" \notin DOMAIN c.ss THEN {}
    ELSE IF c.asked # {} THEN c.asked
    ELSE before

\* The session keys one run of the script reads or deletes while they are
\* absent, in the order of the reads: the first absent key raises and ends
\* the run.
script_faults(ss0, click, text) ==
    LET ss == init_keys(ss0)
        absent == "current_question_data" \notin DOMAIN ss
    IN IF "started" \notin DOMAIN ss THEN {"started"}
       ELSE IF ~ss["started"] THEN {}
       ELSE IF "current_question" \notin DOMAIN ss THEN {"current_question"}
       ELSE IF ss["current_question"] < TOTAL_QUESTIONS
       THEN IF absent /\ "current_difficulty" \notin DOMAIN ss
            THEN {"current_difficulty"}
            ELSE LET s1 == IF absent
                           THEN dict_set(ss, "current_question_data",
                                         generate_question(ss["current_difficulty"], text))
                           ELSE ss
                 IN IF click = "Submit Answer"
                    THEN {"current_difficulty", "score", "questions", "current_question",
                          "current_question_data"} \ DOMAIN s1
                    ELSE {}
       ELSE {"score", "questions"} \ DOMAIN ss

\* the same for an evaluation cycle: the run and, when it asks for one, the rerun
cycle_faults(ss, click, text) ==
    IF script_faults(ss, click, text) # {}
    THEN script_faults(ss, click, text)
    ELSE IF script(ss, click, text).rerun
    THEN script_faults(script(ss, click, text).ss, "", text)
    ELSE {}

----------------------------------------------------------------------------
(* Bounds on the inputs of a session *)

\* how many completions of one session may lack the expected format
MaxMalformed == 1

\* the questions of the session, answered or in flight, that are the fallback's
fallbacks_so_far(ss) ==
    Cardinality({k \in DOMAIN ss["questions"] :
                    ss["questions"][k].Question = fallback_question.question})
    + (IF /\ "current_question_data" \in DOMAIN ss
          /\ ss["current_question_data"] = fallback_question
       THEN 1 ELSE 0)

\* the completions the model may return next: any, until MaxMalformed of the
\* session's questions are fallbacks; from then on the well-formed one
Completions(ss) ==
    IF fallbacks_so_far(ss) < MaxMalformed THEN GenTexts ELSE GenTexts \ {MalformedText}

\* the letters the test-taker picks among
UserLetters == {"A", "B"}

----------------------------------------------------------------------------
(* The session *)

\* the page the last run left on screen: a button can be pressed only there
in_progress == page(session_state) = "question"

completed == page(session_state) = "summary"

ParserIdle ==
    /\ question = <<>>
    /\ options = <<>>
    /\ correct = <<>>
    /\ scanned = EmptyBag
    /\ returned = {}
    /\ prompted = {}

Init ==
    /\ session_state = cycle(<<>>, "", NoText)
    /\ ParserIdle

StartTest(text) ==
    /\ page(session_state) = "start"
    /\ \E c \in {cycle_run(session_state, "Start Test", text)} :
          /\ session_state' = c.ss
          /\ prompted' = next_prompted(prompted, c)
    /\ UNCHANGED <<question, options, correct, scanned, returned>>

SelectAnswer(letter) ==
    /\ in_progress
    /\ letter \in DOMAIN session_state["current_question_data"].options
    /\ \E c \in {cycle_run(dict_set(session_state, "user_answer_radio", letter), "", NoText)} :
          /\ session_state' = c.ss
          /\ prompted' = next_prompted(prompted, c)
    /\ UNCHANGED <<question, options, correct, scanned, returned>>

SubmitAnswer(text) ==
    /\ in_progress
    /\ \E c \in {cycle_run(session_state, "Submit Answer", text)} :
          /\ session_state' = c.ss
          /\ prompted' = next_prompted(prompted, c)
    /\ UNCHANGED <<question, options, correct, scanned, returned>>

RestartTest ==
    /\ completed
    /\ \E c \in {cycle_run(session_state, "Restart Test", NoText)} :
          /\ session_state' = c.ss
          /\ prompted' = next_prompted(prompted, c)
    /\ UNCHANGED <<question, options, correct, scanned, returned>>

Rerender(text) ==
    /\ \E c \in {cycle_run(session_state, "", text)} :
          /\ session_state' = c.ss
          /\ prompted' = next_prompted(prompted, c)
    /\ UNCHANGED <<question, options, correct, scanned, returned>>

\* the buttons and the radio of the page, with whatever the model generates
Start == \E text \in Completions(session_state) : StartTest(text)

Select == \E letter \in UserLetters : SelectAnswer(letter)

Submit == \E text \in Completions(session_state) : SubmitAnswer(text)

Restart == RestartTest

Render == \E text \in Completions(session_state) : Rerender(text)

Next == Start \/ Select \/ Submit \/ Restart \/ Render

Spec == Init /\ [][Next]_vars

\* the session in which the test-taker keeps submitting answers
FairSpec == Spec /\ WF_vars(Submit)

Score == session_state["score"]

Index == session_state["current_question"]

Difficulty == session_state["current_difficulty"]

History == session_state["questions"]

----------------------------------------------------------------------------
(* parse_response, one line of the text at a time *)

\* how many lines a text has at most
MaxLines == 7

\* the lines a text is made of
Lines ==
    { <<"Question:", " ", "What is 2 + 2?">>,
      <<"Question:", " ", "x", " ", "Question:">>,
      <<"A", ")", " ", "3">>,
      <<"B", ")", " ", "4">>,
      <<"C", ")", " ", "5">>,
      <<"D", ")", " ", "6">>,
      <<"E", ")", " ", "7">>,
      <<"B", ")", "x", " ">>,
      <<"F", ")", " ", "8">>,
      <<"Correct Answer:", " ", "B">>,
      <<"Correct Answer:", " ", "F">>,
      <<"Correct Answer:", " ">>,
      <<"x", "?">> }

locals == [question |-> question, options |-> options, correct |-> correct]

\* one iteration of `for line in lines`
ScanLine(line) ==
    /\ returned = {}
    /\ BagCardinality(scanned) < MaxLines
    /\ question' = scan_line(locals, line).question
    /\ options' = scan_line(locals, line).options
    /\ correct' = scan_line(locals, line).correct
    /\ scanned' = scanned (+) SetToBag({line})
    /\ UNCHANGED <<session_state, returned, prompted>>

\* the end of the text: validation and return
Return ==
    /\ returned = {}
    /\ returned' = {finish(locals)}
    /\ UNCHANGED <<session_state, question, options, correct, scanned, prompted>>

ParseNext ==
    \/ \E line \in Lines : ScanLine(line)
    \/ Return

ParseSpec == Init /\ [][ParseNext]_vars

----------------------------------------------------------------------------
(* Properties of the session *)

Levels == {"easy", "medium", "hard"}

OneLevelUp == [easy |-> "medium", medium |-> "hard", hard |-> "hard"]

OneLevelDown == [easy |-> "easy", medium |-> "easy", hard |-> "medium"]

\* the session difficulty right after question k was answered
DifficultyAfter(k) == IF k < Index THEN History[k + 1].Difficulty ELSE Difficulty

WasCorrect(k) == History[k].Result = "Correct"

\* C1: adjust_difficulty maps every level and correctness to a level: one
\* step up the ladder easy < medium < hard when correct (hard stays hard), one
\* step down when incorrect (easy stays easy); and that is the step the
\* session difficulty takes at every answered question.
C1_AdjustLadder ==
    /\ \A d \in Levels, c \in BOOLEAN :
          /\ adjust_difficulty(d, c) \in Levels
          /\ adjust_difficulty(d, c) = IF c THEN OneLevelUp[d] ELSE OneLevelDown[d]
    /\ \A k \in DOMAIN History :
          /\ DifficultyAfter(k) \in Levels
          /\ DifficultyAfter(k) = IF WasCorrect(k)
                                  THEN OneLevelUp[History[k].Difficulty]
                                  ELSE OneLevelDown[History[k].Difficulty]

\* a session that was clamped at the top and at the bottom
C1_BothClamps ==
    \E j, k \in DOMAIN History :
        /\ History[j].Difficulty = "hard" /\ WasCorrect(j) /\ DifficultyAfter(j) = "hard"
        /\ History[k].Difficulty = "easy" /\ ~WasCorrect(k) /\ DifficultyAfter(k) = "easy"

PointsFor(d) == CASE d = "easy" -> 1 [] d = "medium" -> 2 [] d = "hard" -> 3

\* C2: every Submit Answer adds to the score 1, 2 or 3 points for easy,
\* medium or hard when the chosen letter is the question's correct letter and
\* 0 otherwise, the difficulty being the one in effect before the submission
\* adjusts it.
C2_PointsAwarded ==
    [][Submit =>
          Score' - Score =
              IF <<session_state["user_answer_radio"]>>
                     = session_state["current_question_data"].correct_answer
              THEN PointsFor(Difficulty)
              ELSE 0]_vars

\* a session with a correct answer at medium worth 2 that moved the
\* difficulty on, and an incorrect answer at hard worth 0
C2_ScoredBothWays ==
    \E j, k \in DOMAIN History :
        /\ History[j].Difficulty = "medium" /\ WasCorrect(j)
        /\ History[j].Points_Awarded = 2 /\ DifficultyAfter(j) = "hard"
        /\ History[k].Difficulty = "hard" /\ ~WasCorrect(k)
        /\ History[k].Points_Awarded = 0

\* C3: ten correct submissions in a row from the initial state: question 1
\* is asked at medium, questions 2 to 10 at hard, and the score ends at 29.
C3_TenCorrect ==
    (Index = 10 /\ \A k \in 1..10 : WasCorrect(k)) =>
        /\ History[1].Difficulty = "medium"
        /\ \A k \in 2..10 : History[k].Difficulty = "hard"
        /\ Score = 29

C3_TenCorrectDone ==
    /\ Index = 10
    /\ DOMAIN History = 1..10
    /\ \A k \in 1..10 : WasCorrect(k)

\* what Start Test leaves on a fresh session when the model generates text
FreshStart(text) ==
    [started |-> TRUE,
     current_question |-> 0,
     score |-> 0,
     current_difficulty |-> "medium",
     questions |-> <<>>,
     current_question_data |-> parse_response(text),
     user_answer_radio |-> "A"]

\* C4: after a completed session, Restart Test followed by Start Test
\* leaves the state Start Test leaves on a fresh session: index 0, score 0,
\* difficulty medium, empty history, and a question generated anew.
C4_RestartThenStart ==
    [][Restart =>
          /\ "current_question_data" \notin DOMAIN session_state'
          /\ \A text \in GenTexts :
                /\ cycle(session_state', "Start Test", text) = FreshStart(text)
                /\ cycle(session_state', "Start Test", text)
                       = cycle(cycle(<<>>, "", NoText), "Start Test", text)]_vars

\* a completed session with right and wrong answers, where Restart Test is offered
C4_CompletedSession ==
    /\ completed
    /\ Score > 0
    /\ \E j, k \in DOMAIN History : WasCorrect(j) /\ ~WasCorrect(k)

\* C7: once started, the session in which the test-taker keeps submitting
\* reaches the summary, whatever the answers and the generated texts; it is
\* there after exactly 10 submissions (the index counts them: only Submit
\* Answer raises it, by one), and no further submission is possible there.
C7_TenSubmissions ==
    /\ in_progress ~> completed
    /\ [](completed => Index = 10 /\ DOMAIN History = 1..10)
    /\ [][/\ Index' # Index => (Submit /\ Index' = Index + 1) \/ Restart
          /\ completed => ~Submit /\ (Restart \/ UNCHANGED session_state)]_vars

\* a session completed with a wrong answer and a fallback question in it
C7_SummaryReached ==
    /\ completed
    /\ Index = 10
    /\ \E k \in DOMAIN History : ~WasCorrect(k)
    /\ \E k \in DOMAIN History : History[k].Question = <<"What is 2 + 2?">>

\* C8: no action other than Restart Test lowers the score or sets it back
\* to 0; Restart Test resets it.
C8_ScoreKept ==
    [][/\ ~Restart => Score' >= Score /\ (Score' = 0 => Score = 0)
       /\ Restart => Score' = 0]_vars

\* a positive score that a wrong answer has just left as it was
C8_WrongAfterPoints ==
    /\ in_progress
    /\ Index >= 2
    /\ Score > 0
    /\ ~WasCorrect(Index)
    /\ History[Index].Points_Awarded = 0

\* C9: the history holds exactly the keys 1..current_question, and no
\* action other than Restart Test changes or removes a record once written.
C9_HistoryKeys ==
    [][/\ DOMAIN History = 1..Index
       /\ DOMAIN History' = 1..Index'
       /\ ~Restart => \A k \in DOMAIN History :
                          k \in DOMAIN History' /\ History'[k] = History[k]]_vars

\* three records, written by three submissions that differ
C9_ThreeRecords ==
    /\ Index = 3
    /\ DOMAIN History = {1, 2, 3}
    /\ History[1] # History[2]
    /\ History[2] # History[3]

\* C10: the index is an integer in 0..10, each Submit Answer raises it by
\* exactly 1, and Submit Answer is possible only while it is below 10.
C10_IndexRange ==
    [][/\ Index \in 0..10
       /\ Index' \in 0..10
       /\ Submit => Index < 10 /\ Index' = Index + 1
       /\ in_progress => Index < 10
       /\ Index >= 10 => ~Submit]_vars

\* the last question, where Submit Answer is offered for the tenth time
C10_LastQuestion ==
    /\ in_progress
    /\ Index = 9
    /\ DOMAIN History = 1..9

----------------------------------------------------------------------------
(* Properties of parse_response *)

TheFallback ==
    [question |-> <<"What is 2 + 2?">>,
     options |-> [A |-> <<"3">>, B |-> <<"4">>, C |-> <<"5">>, D |-> <<"6">>, E |-> <<"7">>],
     correct_answer |-> <<"B">>]

\* what the scan has captured, as a Question
Captured == [question |-> question, options |-> options, correct_answer |-> correct]

\* the scan ends with an empty prompt, fewer than 5 letters or an empty correct letter
ScanIncomplete ==
    \/ question = <<>>
    \/ Cardinality(DOMAIN options) < 5
    \/ correct = <<>>

\* the lines of the text that start with a prefix, and whether there is just one
LinesStarting(prefix) ==
    {l \in BagToSet(scanned) :
        Len(l) >= Len(prefix) /\ \A i \in 1..Len(prefix) : l[i] = prefix[i]}

OneLineStarting(prefix) ==
    \E l \in LinesStarting(prefix) :
        LinesStarting(prefix) = {l} /\ CopiesIn(l, scanned) = 1

TheLine(prefix) == CHOOSE l \in LinesStarting(prefix) : TRUE

\* the text of a line after its first n tokens, trimmed
RECURSIVE Trimmed(_)
Trimmed(s) ==
    IF s # <<>> /\ s[1] = " " THEN Trimmed(SubSeq(s, 2, Len(s)))
    ELSE IF s # <<>> /\ s[Len(s)] = " " THEN Trimmed(SubSeq(s, 1, Len(s) - 1))
    ELSE s

TextAfter(l, n) == Trimmed(SubSeq(l, n + 1, Len(l)))

\* C5 as stated: the fallback question is returned exactly when the scan
\* ends incomplete, always when no line starts with "Correct Answer:", and
\* the parser always returns a Question.
C5_FallbackExactly ==
    /\ returned = {} => ENABLED Return
    /\ returned # {} =>
          /\ Cardinality(returned) = 1
          /\ returned = {TheFallback} <=> ScanIncomplete
          /\ LinesStarting(<<"Correct Answer:">>) = {} => returned = {TheFallback}

\* C5 amended: the fallback question is returned when the scan ends
\* incomplete, and otherwise the captured prompt, options and correct letter
\* are returned, which are the fallback question only when the text itself
\* spells it; a text with no line starting with "Correct Answer:" yields the
\* fallback, and the parser always returns a Question.
C5_FallbackWhenIncomplete ==
    /\ returned = {} => ENABLED Return
    /\ returned # {} =>
          /\ Cardinality(returned) = 1
          /\ ScanIncomplete => returned = {TheFallback}
          /\ ~ScanIncomplete => returned = {Captured}
          /\ returned = {TheFallback} <=> (ScanIncomplete \/ Captured = TheFallback)
          /\ LinesStarting(<<"Correct Answer:">>) = {} => returned = {TheFallback}

\* a text with a prompt and all five letters but no "Correct Answer:" line,
\* parsed to the fallback question
C5_NoCorrectLine ==
    /\ returned = {TheFallback}
    /\ question # <<>>
    /\ question # <<"What is 2 + 2?">>
    /\ Cardinality(DOMAIN options) = 5
    /\ LinesStarting(<<"Correct Answer:">>) = {}

\* one "Question:" line with text, one line for each of A) to E), one
\* "Correct Answer:" line with text
WellFormed ==
    /\ OneLineStarting(<<"Question:">>)
    /\ TextAfter(TheLine(<<"Question:">>), 1) # <<>>
    /\ \A letter \in {"A", "B", "C", "D", "E"} : OneLineStarting(<<letter, ")">>)
    /\ OneLineStarting(<<"Correct Answer:">>)
    /\ TextAfter(TheLine(<<"Correct Answer:">>), 1) # <<>>

\* C6: a well-formed text, its lines in any order, is parsed to the
\* Question whose prompt is the text after the "Question:" marker, whose
\* options are exactly A..E with the text of their lines, and whose correct
\* letter is the text after "Correct Answer:".
C6_WellFormedParsed ==
    (returned # {} /\ WellFormed) =>
        returned = {[question |-> TextAfter(TheLine(<<"Question:">>), 1),
                     options |-> [letter \in {"A", "B", "C", "D", "E"} |->
                                     TextAfter(TheLine(<<letter, ")">>), 2)],
                     correct_answer |-> TextAfter(TheLine(<<"Correct Answer:">>), 1)]}

----------------------------------------------------------------------------
(* Further properties of the session *)

InFlight(ss) == "current_question_data" \in DOMAIN ss

\* C11: whenever a question is in flight, the session's current difficulty
\* is the one generate_question was called with for it, and the record of an
\* answered question stores that difficulty and takes its points from it.
C11_AskedDifficulty ==
    [][/\ InFlight(session_state) => prompted = {Difficulty}
       /\ InFlight(session_state') => prompted' = {Difficulty'}
       /\ Submit =>
             /\ History'[Index + 1].Difficulty \in prompted
             /\ \A d \in prompted :
                   History'[Index + 1].Points_Awarded =
                       IF History'[Index + 1].Result = "Correct" THEN PointsFor(d) ELSE 0]_vars

\* a question asked at easy after the difficulty came down from medium
C11_AskedAfterChange ==
    /\ in_progress
    /\ Index >= 2
    /\ InFlight(session_state)
    /\ prompted = {"easy"}
    /\ History[Index].Difficulty = "medium"

\* C12: between Start Test and Restart Test only Submit Answer changes the
\* index, the score, the difficulty or the history; a cycle with no
\* submission leaves them as they are and, once a question is in flight,
\* neither calls the generator nor replaces the question, whatever the model
\* would have generated; a submission calls the generator at most once.
C12_OnlySubmitChanges ==
    [][/\ (~Submit /\ ~Restart) =>
             /\ UNCHANGED <<Index, Score, Difficulty, History>>
             /\ InFlight(session_state) =>
                   /\ InFlight(session_state')
                   /\ session_state'["current_question_data"]
                          = session_state["current_question_data"]
       /\ in_progress =>
             \A text \in GenTexts :
                 /\ cycle_run(session_state, "", text).asked = {}
                 /\ cycle_run(session_state, "", text).ss = session_state
                 /\ Cardinality(cycle_run(session_state, "Submit Answer", text).asked) <= 1]_vars

\* the first question after the radio was moved from its default: a cycle
\* with no submission has run on the question in flight
C12_RadioMoved ==
    /\ in_progress
    /\ Index = 0
    /\ History = <<>>
    /\ InFlight(session_state)
    /\ session_state["user_answer_radio"] = "B"

(* Further properties of parse_response *)
FiveLetters == {"A", "B", "C", "D", "E"}

\* the lines of the text that start with a letter and a parenthesis, with
\* their multiplicity, and the letters of A..E among them
OptionLines == {l \in BagToSet(scanned) : Len(l) >= 2 /\ l[2] = ")"}

OptionLineCount == BagCardinality([l \in OptionLines |-> CopiesIn(l, scanned)])

LettersCovered == {l[1] : l \in OptionLines} \cap FiveLetters

MatchesNoMarker(line) ==
    /\ LinesStarting(<<"Question:">>) \cap {line} = {}
    /\ LinesStarting(<<"Correct Answer:">>) \cap {line} = {}
    /\ \A letter \in FiveLetters : line[1] # letter \/ line[2] # ")"

\* the line a step of the loop has consumed
ScannedNow == {l \in Lines : CopiesIn(l, scanned') > CopiesIn(l, scanned)}

\* C13: a later line for a letter already captured replaces the earlier text
\* and leaves the number of options as it is; a line for a new letter of A..E
\* adds that letter; a line matching no marker, a line for a letter beyond E
\* included, changes nothing; only letters of A..E are ever captured, and
\* they are the letters the option lines cover; hence a text with five or
\* more option lines covering fewer than 5 letters of A..E yields the
\* fallback question.
C13_LastWins ==
    [][/\ \A line \in ScannedNow :
             /\ (Len(line) >= 2 /\ line[2] = ")" /\ line[1] \in DOMAIN options) =>
                   /\ DOMAIN options' = DOMAIN options
                   /\ options' = [options EXCEPT ![line[1]] = TextAfter(line, 2)]
                   /\ UNCHANGED <<question, correct>>
             /\ (Len(line) >= 2 /\ line[2] = ")" /\ line[1] \in FiveLetters \ DOMAIN options) =>
                   /\ DOMAIN options' = DOMAIN options \cup {line[1]}
                   /\ options'[line[1]] = TextAfter(line, 2)
             /\ MatchesNoMarker(line)' => UNCHANGED <<question, options, correct>>
             /\ DOMAIN options' = LettersCovered'
       /\ (returned' # {} /\ OptionLineCount' >= 5 /\ Cardinality(LettersCovered') < 5) =>
             returned' = {TheFallback}]_vars

\* a text with a prompt, a correct letter and five option lines, two of them
\* for B, the later one being "B)x ", has been parsed
C13_TwoLinesForB ==
    /\ returned = {TheFallback}
    /\ question # <<>>
    /\ correct # <<>>
    /\ OptionLineCount >= 5
    /\ Cardinality(LettersCovered) = 4
    /\ CopiesIn(<<"B", ")", " ", "4">>, scanned) = 1
    /\ CopiesIn(<<"B", ")", "x", " ">>, scanned) = 1
    /\ options["B"] = <<"x">>

(* Session keys *)
Clicks == {"", "Start Test", "Submit Answer", "Restart Test"}

FiveKeys == {"started", "current_question", "score", "current_difficulty", "questions"}

\* C14: in every reachable state, whichever button is pressed next and
\* whatever the model generates, the evaluation cycle reads or deletes no
\* absent session key; the five keys are present after every cycle, the
\* first run after Restart Test deleted every key sets them again, and the
\* question in flight is present when Submit Answer deletes it.
C14_NoAbsentKey ==
    /\ FiveKeys \subseteq DOMAIN session_state
    /\ \A click \in Clicks, text \in GenTexts :
          cycle_faults(session_state, click, text) = {}
    /\ completed =>
          /\ DOMAIN restart_test(session_state) = {}
          /\ FiveKeys \subseteq DOMAIN cycle(session_state, "Restart Test", NoText)
    /\ in_progress => InFlight(session_state)

\* the summary of a session whose last answer was wrong: Restart Test is
\* offered and deletes every key, the question in flight was deleted by the
\* tenth Submit Answer
C14_RestartOffered ==
    /\ completed
    /\ ~InFlight(session_state)
    /\ History[TOTAL_QUESTIONS].Result = "Incorrect"
    /\ "user_answer_radio" \in DOMAIN session_state
    /\ cycle(session_state, "Restart Test", NoText) = cycle(<<>>, "", NoText)

(* The correct letter of the returned Question *)

\* C15: the correct letter of the Question returned by parse_response is
\* one of the keys of its options, which are letters of A..E, so that one of
\* the answers offered is scored as correct.
C15_CorrectIsAnOption ==
    \A q \in returned :
        /\ DOMAIN q.options \subseteq FiveLetters
        /\ \E letter \in DOMAIN q.options : q.correct_answer = <<letter>>

(* The score and the history *)

\* the sum of the "Points Awarded" of the records with the given keys
RECURSIVE PointsOf(_)
PointsOf(keys) ==
    IF keys = {} THEN 0
    ELSE LET k == CHOOSE x \in keys : TRUE
         IN History[k].Points_Awarded + PointsOf(keys \ {k})

\* C16: the score is the sum of the "Points Awarded" of all the records of
\* the history, and the points of a record are 0 exactly when its result is
\* "Incorrect".
C16_ScoreIsSumOfPoints ==
    /\ Score = PointsOf(DOMAIN History)
    /\ \A k \in DOMAIN History :
          /\ History[k].Result \in {"Correct", "Incorrect"}
          /\ History[k].Points_Awarded = 0 <=> History[k].Result = "Incorrect"

\* three answers, right, wrong, right
C16_RightWrongRight ==
    /\ in_progress
    /\ Index = 3
    /\ History[1].Result = "Correct"
    /\ History[2].Result = "Incorrect"
    /\ History[3].Result = "Correct"
    /\ Score = 4

\* C17: the score is never negative and never more than 3 times the index,
\* and the score of a completed session is at most 29.
C17_ScoreBounds ==
    /\ Score >= 0
    /\ Score <= 3 * Index
    /\ completed => Score <= 29

\* a completed session with every answer wrong
C17_CompletedAllWrong ==
    /\ completed
    /\ Score = 0
    /\ \A k \in 1..TOTAL_QUESTIONS : History[k].Result = "Incorrect"

====
